---- MODULE Spec2Model ----
(***************************************************************************)
(* LedgerBlocksSynchronizer (rs/rosetta-api/ledger_client_core/src/        *)
(* ledger_blocks_sync.rs): sync_blocks and sync_range_of_blocks as a state *)
(* machine over the local block store and the answers of the remote        *)
(* ledger.  One step per stretch of code between two await points.         *)
(***************************************************************************)
EXTENDS Integers, Sequences, FiniteSets, TLC

(* ------------------------------ bounds --------------------------------- *)
\* number of distinct hash values
HashMod == 3
\* highest tip index / upper bound the remote or the caller may name
MaxHeight == 2
\* longest answer of multi_query_blocks
MaxBatch == 2
\* bits of the unsigned integers of the range arithmetic (u64, scaled down)
WordBits == 3

(* --------------------------- program constants ------------------------- *)
\* const PRUNE_DELAY: u64 = 10000, scaled down so that the pruning case is
\* reached with chains of MaxHeight + 1 blocks.
PRUNE_DELAY == 1

\* Option::None for hashes, heights, certifications and limits
None == -1

\* callers of sync_blocks; Writers are the ones that run under Spec
Procs == {1, 2}
Writers == {1}

Min(a, b) == IF a < b THEN a ELSE b

(* ------------------------- blocks and hashes --------------------------- *)
\* the operations of dummy_block: a Mint for genesis, a Transfer after it
Mint == 0
Transfer == 1
\* the number of payloads a block may carry besides its parent hash
NPayload == Transfer + 1

Hashes == 0 .. (HashMod - 1)
NCodes == (HashMod + 1) * NPayload
\* an EncodedBlock that Block::decode rejects
Garbage == NCodes
EncodedBlocks == 0 .. NCodes

\* Block::new(parent_hash, ..).encode()
Encode(parent_hash, payload) == (parent_hash + 1) * NPayload + payload

Decodable(raw) == raw < NCodes

\* Block::decode(raw_block)
Decode(raw) ==
    [parent_hash |-> (raw \div NPayload) - 1, payload |-> raw % NPayload]

\* Block::block_hash(&encoded)
block_hash(raw) == raw % HashMod

\* HashedBlock::hash_block(raw_block, last_block_hash, i)
hash_block(raw, parent_hash, index) ==
    [block |-> raw, hash |-> block_hash(raw),
     parent_hash |-> parent_hash, index |-> index]

\* dummy_block(parent_hash)
dummy_block(parent_hash) ==
    Encode(parent_hash, IF parent_hash = None THEN Mint ELSE Transfer)

\* dummy_blocks(n): the correctly linked chain of n blocks
RECURSIVE dummy_blocks(_)
dummy_blocks(n) ==
    IF n = 0 THEN <<>>
    ELSE LET res == dummy_blocks(n - 1)
             parent_hash == IF res = <<>> THEN None ELSE block_hash(res[Len(res)])
         IN Append(res, dummy_block(parent_hash))

\* verify_block_hash(&certification, hash, verification_info): a
\* certification attests one hash; a missing one attests nothing
verify_block_hash(certification, hash) ==
    certification # None /\ certification = hash

(* ---------------------- the block store (Blocks) ----------------------- *)
Heights(s) == {b.index : b \in s}
SetMax(S) == CHOOSE x \in S : \A y \in S : y <= x
SetMin(S) == CHOOSE x \in S : \A y \in S : x <= y

\* Blocks::last / Blocks::first
Last(s) == CHOOSE b \in s : b.index = SetMax(Heights(s))
First(s) == CHOOSE b \in s : b.index = SetMin(Heights(s))

\* Blocks::synced_to: (hash, index) of the last block; both None when empty
synced_to(s) ==
    IF s = {} THEN [hash |-> None, index |-> None]
    ELSE [hash |-> Last(s).hash, index |-> Last(s).index]

\* Blocks::add_blocks_batch: the whole batch or nothing
add_blocks_batch(s, hashed_batch) ==
    s \cup {hashed_batch[k] : k \in 1 .. Len(hashed_batch)}

\* what a failed lookup answers
NoBlock == [block |-> None, hash |-> None, parent_hash |-> None, index |-> None]

\* Blocks::get_verified_at(height): the block, or NoBlock for an error
get_verified_at(s, lv, height) ==
    IF lv # None /\ height <= lv /\ height \in Heights(s)
    THEN CHOOSE b \in s : b.index = height
    ELSE NoBlock

\* Blocks::try_prune(&max_blocks, prune_delay): once more than prune_delay
\* blocks exceed the limit, drop the oldest ones down to the limit, keeping
\* the last verified block
try_prune(s, lv, max_blocks, prune_delay) ==
    IF max_blocks = None \/ s = {} \/ lv = None THEN s
    ELSE LET first_idx == First(s).index
             last_idx == Last(s).index
         IN IF first_idx + max_blocks + prune_delay < last_idx + 1
            THEN {b \in s : b.index >= Min(last_idx + 1 - max_blocks, lv)}
            ELSE s

(* ------------------------------ state ---------------------------------- *)
VARIABLES
    mode,              \* "honest": the remote serves chain; "arbitrary": anything
    chain,             \* the remote chain (RangeOfBlocks.blocks)
    verification_info, \* TRUE when a verification key is configured
    store_max_blocks,  \* Option<u64>
    store,             \* blockchain: the set of stored HashedBlocks
    last_verified,     \* block_store.last_verified()
    call,              \* per caller: the locals of its sync_blocks call
    ctor,              \* the locals of LedgerBlocksSynchronizer::new
    read_guards,       \* the read_blocks guards that are held
    rng                \* the u64 arithmetic of one call: tip, bound, range

vars == <<mode, chain, verification_info, store_max_blocks, store,
          last_verified, call, ctor, read_guards, rng>>

\* what sync_blocks never writes
config == <<mode, chain, verification_info, store_max_blocks, ctor, read_guards,
            rng>>

NoResume == [store0 |-> {}, lv0 |-> None, up_to |-> None, on |-> FALSE]

IdleCall ==
    [pc |-> "idle", result |-> "none", up_to |-> None, stopped |-> FALSE,
     tip_index |-> None, certification |-> None, range_end |-> None,
     i |-> None, last_block_hash |-> None, batch_len |-> None,
     hashed_batch |-> <<>>, err |-> "none",
     \* history of the call, read by the properties only
     g_store0 |-> {}, g_lv0 |-> None, g_next0 |-> None, g_fetches |-> 0,
     g_cert_checks |-> 0, g_prunes |-> 0, g_batches |-> 0, g_appended |-> 0,
     g_tip_cert |-> None,
     g_mismatch_at |-> None, g_overlong |-> FALSE, g_resume |-> NoResume]

\* the locals of new before its first statement
NewCall ==
    [pc |-> "new", result |-> "none", blocks_access |-> TRUE, persistent |-> FALSE,
     first_block |-> NoBlock, tip_index |-> None, certification |-> None,
     \* history of the construction, read by the properties only
     g_store0 |-> {}, g_genesis |-> "none", g_anchor |-> "none",
     g_raw_queries |-> {}, g_tip_queries |-> 0, g_cert_checks |-> 0,
     g_tip_block |-> None]

\* no range arithmetic under way
NoRange ==
    [pc |-> "idle", build |-> "none", tip_index |-> None, up_to |-> None,
     synced |-> None, next_block_index |-> None, up_to_incl |-> None,
     range_start |-> None, range_end |-> None, entered |-> FALSE,
     marked |-> None, overflowed |-> FALSE, outcome |-> "none"]

\* new has returned Ok(Self { .. }) over an in-memory store
Constructed == [NewCall EXCEPT !.pc = "done", !.result = "Ok"]

Init ==
    /\ ctor = Constructed
    /\ read_guards = {}
    /\ rng = NoRange
    /\ mode \in {"honest", "arbitrary"}
    /\ chain \in IF mode = "honest"
                 THEN {dummy_blocks(n) : n \in 0 .. (MaxHeight + 1)}
                 ELSE {<<>>}
    /\ verification_info \in BOOLEAN
    /\ store_max_blocks \in {None, 1}
    /\ store = {}
    /\ last_verified = None
    /\ call = [p \in Procs |-> IdleCall]

(* ------------------------- the remote ledger --------------------------- *)
ErrReply == [ok |-> FALSE, tip_index |-> None, certification |-> None]

\* BlocksAccess::query_tip
TipReplies ==
    IF mode = "honest"
    THEN IF chain = <<>> THEN {ErrReply}
         ELSE {ErrReply} \cup
              {[ok |-> TRUE, tip_index |-> Len(chain) - 1, certification |-> c] :
                   c \in {None, block_hash(chain[Len(chain)])}}
    ELSE {ErrReply} \cup
         [ok : {TRUE}, tip_index : 0 .. MaxHeight, certification : {None} \cup Hashes]

\* BlocksAccess::multi_query_blocks(start .. end): the lengths of the batch
\* it may answer (an error is a separate case).  The honest remote answers a
\* non-empty prefix of the range it was asked for.
BatchLengths(start, end) ==
    IF mode = "honest"
    THEN 1 .. Min(MaxBatch, Min(end, Len(chain)) - start)
    ELSE 0 .. MaxBatch

\* the block the answer holds for height i
BatchBlocks(i) ==
    IF mode = "honest" THEN {chain[i + 1]} ELSE EncodedBlocks

(* ---------------------------- sync_blocks ------------------------------ *)
\* let (last_block_hash, next_block_index) = match blockchain.synced_to()
\* the start height that repeats the last stored height
next_block_index_same_height(s) ==
    IF synced_to(s).index = None THEN 0 ELSE synced_to(s).index

next_block_index(s) ==
    IF synced_to(s).index = None THEN 0 ELSE synced_to(s).index + 1

\* the running hash that forgets the stored tip
first_block_parent_hash_none(s) == None

first_block_parent_hash(s) == synced_to(s).hash

\* if next_block_index > tip_index { return Ok(()) }
tip_is_behind(next, tip_index) == next > tip_index

\* a tip behind the store reported as an error
stale_tip_is_error == "Err_stale"

\* what the call answers when the tip is behind: return Ok(())
stale_tip_result == "Ok"

\* the early return left out
nothing_to_do_never(next, up_to_incl) == FALSE

\* if next_block_index > up_to_block_included { return Ok(()) }
nothing_to_do(next, up_to_incl) == next > up_to_incl

\* the bound of the caller ignored
up_to_block_included_unbounded(tip_index, up_to) == tip_index

\* tip_index.min(up_to_block_included.unwrap_or(u64::MAX))
up_to_block_included(tip_index, up_to) ==
    IF up_to = None THEN tip_index ELSE Min(tip_index, up_to)

\* if up_to_block_included != tip_index { certification = None; }
carried_certification(certification, up_to_incl, tip_index) ==
    IF up_to_incl # tip_index THEN None ELSE certification

\* the range that ends at the bound itself
range_end_without_one(up_to_incl) == up_to_incl

\* Range { start: next_block_index, end: up_to_block_included + 1 }
range_end_of(up_to_incl) == up_to_incl + 1

\* the call returns: its locals are dropped, its history stays readable
Finished(c, result) ==
    [c EXCEPT !.pc = "returned", !.result = result, !.stopped = FALSE,
              !.certification = None, !.last_block_hash = None,
              !.batch_len = None, !.hashed_batch = <<>>, !.err = "none"]

\* what the caller keeps of a call: after an interrupted call against the
\* honest remote, the store that call (or the first of a row of interrupted
\* calls) started from, and the bound it asked for
Resume(c) ==
    IF c.result = "Err_interrupted" /\ mode = "honest"
    THEN IF c.g_resume.on THEN c.g_resume
         ELSE [store0 |-> c.g_store0, lv0 |-> c.g_lv0, up_to |-> c.up_to, on |-> TRUE]
    ELSE NoResume

\* a new call continues the interrupted one when it asks for the same bound
Inherit(c, up_to) ==
    IF c.g_resume.on /\ c.g_resume.up_to = up_to THEN c.g_resume ELSE NoResume

\* sync_blocks up to the lock: canister.query_tip().await
QueryTip(p) ==
    /\ call[p].pc = "idle"
    /\ \E up_to \in {None} \cup (0 .. MaxHeight), r \in TipReplies :
           LET c == [IdleCall EXCEPT !.up_to = up_to, !.g_store0 = store,
                                     !.g_lv0 = last_verified,
                                     !.g_resume = Inherit(call[p], up_to)]
           IN call' = [call EXCEPT ![p] =
                  IF r.ok
                  THEN [c EXCEPT !.pc = "write_wait", !.tip_index = r.tip_index,
                                 !.certification = r.certification,
                                 !.g_tip_cert = r.certification]
                  ELSE Finished(c, "Err_tip")]
    /\ UNCHANGED <<config, store, last_verified>>

\* sync_blocks has returned to its caller
Return(p) ==
    /\ call[p].pc = "returned"
    /\ call' = [call EXCEPT ![p] = [IdleCall EXCEPT !.g_resume = Resume(call[p])]]
    /\ UNCHANGED <<config, store, last_verified>>

\* the caller's flag, set by whoever holds the other end of the Arc (the
\* flag is only read at the head of the loop, so a store before the call
\* reaches the loop is the store made there)
SetStopped(p) ==
    /\ call[p].pc \in {"loop", "fetch"}
    /\ ~call[p].stopped
    /\ call' = [call EXCEPT ![p].stopped = TRUE]
    /\ UNCHANGED <<config, store, last_verified>>

\* the call holds the write guard of self.blockchain: from write().await
\* until sync_blocks returns
HoldsWrite(c) == c.pc \in {"loop", "fetch", "for"}

\* a write guard handed out whatever guards are held
can_write_unguarded(p) == TRUE

\* self.blockchain.write().await returns: RwLock hands out the write guard
\* when no read guard and no other write guard is held
can_write(p) ==
    /\ read_guards = {}
    /\ \A q \in Procs \ {p} : ~HoldsWrite(call[q])

\* self.blockchain.read().await returns: RwLock hands out a read guard when
\* no write guard is held
can_read == \A q \in Procs : ~HoldsWrite(call[q])

\* the store as it was when the call queried the tip
chain_view_before_lock(c) == c.g_store0

\* match blockchain.synced_to(): read through the write guard, after
\* write().await has returned
chain_view(c) == store

\* self.blockchain.write().await, then the code down to the loop
AcquireWrite(p) ==
    /\ call[p].pc = "write_wait"
    /\ can_write(p)
    /\ LET c == call[p]
           next == next_block_index(chain_view(c))
           upto == up_to_block_included(c.tip_index, c.up_to)
           c1 == [c EXCEPT !.g_next0 = next]
       IN call' = [call EXCEPT ![p] =
              IF tip_is_behind(next, c.tip_index) THEN Finished(c1, stale_tip_result)
              ELSE IF nothing_to_do(next, upto) THEN Finished(c1, "Ok")
              ELSE [c1 EXCEPT !.pc = "loop",
                              !.certification =
                                  carried_certification(c.certification, upto, c.tip_index),
                              !.range_end = range_end_of(upto),
                              !.i = next,
                              !.last_block_hash =
                                  first_block_parent_hash(chain_view(c))]]
    /\ UNCHANGED <<config, store, last_verified>>

(* ------------------------ sync_range_of_blocks ------------------------- *)
\* the link check left out
parent_hash_unchecked(parent_hash, last_block_hash) == TRUE

\* if block.parent_hash != last_block_hash { return Err(..) }
parent_hash_ok(parent_hash, last_block_hash) == parent_hash = last_block_hash

\* a range that ends without a check
checks_certification_never(i, range_end) == FALSE

\* a check on every block of the range
checks_certification_every_block(i, range_end) == verification_info

\* if i == range.end - 1 { if let Some(verification_info) = .. { verify } }
checks_certification(i, range_end) ==
    i = range_end - 1 /\ verification_info

\* an error path that still prunes
store_after_error_pruned(s) ==
    try_prune(s, last_verified, store_max_blocks, PRUNE_DELAY)

\* what a call that fails leaves in the store: every `?` returns at once,
\* before the try_prune that ends sync_blocks
store_after_error(s) == s

\* a loop that never looks at the flag
stop_flag_ignored(c) == FALSE

\* if stopped.load(Relaxed): the one read of the flag in an iteration
stop_flag_set(c) == c.stopped

\* an interruption reported as success
interrupted_is_ok == "Ok"

\* return Err(Error::InternalError("Interrupted".to_string()))
interrupted_result == "Err_interrupted"

\* an empty answer taken for a batch
batch_is_empty_unchecked(len) == FALSE

\* if batch.is_empty() { return Err(..) }
batch_is_empty(len) == len = 0

\* blockchain.block_store.mark_last_verified(range.end - 1)
marked_height(range_end) == range_end - 1

\* a cursor that stays where it is
cursor_stuck(i) == i

\* i += 1, once per block of the batch
next_cursor(i) == i + 1

\* every block written to the store as soon as it is hashed
store_in_batch_written(s, hashed_batch) == add_blocks_batch(s, hashed_batch)

\* hashed_batch.push(hb): inside the for loop the blocks are collected in
\* hashed_batch and the store is not written
store_in_batch(s, hashed_batch) == s

\* a return without the prune
returns_unpruned(s, lv) == s

\* blockchain.try_prune(&self.store_max_blocks, PRUNE_DELAY): the value
\* sync_blocks returns
prune_at_return(s, lv) == try_prune(s, lv, store_max_blocks, PRUNE_DELAY)

\* while i < range.end { if stopped.load(Relaxed) { return Err("Interrupted") }
\* .. multi_query_blocks(i .. range.end).await
LoopHead(p) ==
    /\ call[p].pc = "loop"
    /\ call[p].i < call[p].range_end
    /\ call' = [call EXCEPT ![p] =
           IF stop_flag_set(call[p]) THEN Finished(call[p], interrupted_result)
           ELSE [call[p] EXCEPT !.pc = "fetch", !.g_fetches = @ + 1]]
    /\ store' = IF stop_flag_set(call[p]) THEN store_after_error(store) ELSE store
    /\ UNCHANGED <<config, last_verified>>

\* multi_query_blocks fails: map_err(Error::InternalError)?
FetchError(p) ==
    /\ call[p].pc = "fetch"
    /\ call' = [call EXCEPT ![p] = Finished(call[p], "Err_remote")]
    /\ store' = store_after_error(store)
    /\ UNCHANGED <<config, last_verified>>

\* the batch arrives: debug!("Got batch of len: {}", batch.len()) and
\* if batch.is_empty() { return Err(..) }
BatchArrives(p) ==
    /\ call[p].pc = "fetch"
    /\ \E len \in BatchLengths(call[p].i, call[p].range_end) :
           LET c == call[p] IN
           /\ call' = [call EXCEPT ![p] =
                  IF batch_is_empty(len) THEN Finished(c, "Err_empty")
                  ELSE [c EXCEPT !.pc = "for", !.batch_len = len,
                                 !.hashed_batch = <<>>,
                                 !.g_overlong = @ \/ len > c.range_end - c.i]]
           /\ store' = IF batch_is_empty(len) THEN store_after_error(store) ELSE store
    /\ UNCHANGED <<config, last_verified>>

\* for raw_block in batch { .. }: one block of the batch is decoded, checked
\* and hashed; after the last one blockchain.add_blocks_batch(hashed_batch)?
ForBlock(p) ==
    /\ call[p].pc = "for"
    /\ \E raw_block \in BatchBlocks(call[p].i),
          store_ok \in IF Len(call[p].hashed_batch) + 1 = call[p].batch_len
                       THEN BOOLEAN ELSE {TRUE} :
           LET c == call[p]
               failed(r) == /\ call' = [call EXCEPT ![p] = Finished(r, r.err)]
                            /\ store' = store_after_error(store)
           IN IF ~Decodable(raw_block)
              THEN failed([c EXCEPT !.err = "Err_decode"])
              ELSE LET block == Decode(raw_block)
                       c1 == IF block.parent_hash # c.last_block_hash
                                /\ c.g_mismatch_at = None
                             THEN [c EXCEPT !.g_mismatch_at = c.i] ELSE c
                   IN IF ~parent_hash_ok(block.parent_hash, c.last_block_hash)
                      THEN failed([c1 EXCEPT !.err = "Err_parent"])
                      ELSE LET hb == hash_block(raw_block, c.last_block_hash, c.i)
                               chk == checks_certification(c.i, c.range_end)
                               c2 == [c1 EXCEPT !.g_cert_checks = @ + (IF chk THEN 1 ELSE 0)]
                               c3 == [c2 EXCEPT !.last_block_hash = hb.hash,
                                                !.hashed_batch = Append(@, hb),
                                                !.i = next_cursor(@)]
                           IN IF chk /\ ~verify_block_hash(c.certification, hb.hash)
                              THEN failed([c2 EXCEPT !.err = "Err_certification"])
                              ELSE IF Len(c3.hashed_batch) < c.batch_len
                              THEN /\ call' = [call EXCEPT ![p] = c3]
                                   /\ store' = store_in_batch(store, c3.hashed_batch)
                              ELSE IF ~store_ok
                              THEN failed([c3 EXCEPT !.err = "Err_store"])
                              ELSE /\ call' = [call EXCEPT ![p] =
                                          [c3 EXCEPT !.pc = "loop", !.batch_len = None,
                                                     !.hashed_batch = <<>>,
                                                     !.g_batches = @ + 1,
                                                     !.g_appended = @ + Len(c3.hashed_batch)]]
                                   /\ store' = add_blocks_batch(store, c3.hashed_batch)
    /\ UNCHANGED <<config, last_verified>>

\* the loop is over: mark_last_verified(range.end - 1), back in sync_blocks
\* blockchain.last()? and try_prune(&self.store_max_blocks, PRUNE_DELAY)
Finish(p) ==
    /\ call[p].pc = "loop"
    /\ ~(call[p].i < call[p].range_end)
    /\ \E fail \in {"none", "mark", "last", "prune"} :
           LET c == call[p] IN
           /\ last_verified' = IF fail = "mark" THEN last_verified
                               ELSE marked_height(c.range_end)
           /\ store' = IF fail = "none"
                       THEN prune_at_return(store, marked_height(c.range_end))
                       ELSE store_after_error(store)
           /\ call' = [call EXCEPT ![p] =
                  IF fail = "none"
                  THEN Finished([c EXCEPT !.g_prunes = @ + 1], "Ok")
                  ELSE IF fail = "prune"
                  THEN Finished([c EXCEPT !.g_prunes = @ + 1], "Err_store")
                  ELSE Finished(c, "Err_store")]
    /\ UNCHANGED config

Step(p) ==
    \/ QueryTip(p)
    \/ Return(p)
    \/ SetStopped(p)
    \/ AcquireWrite(p)
    \/ LoopHead(p)
    \/ FetchError(p)
    \/ BatchArrives(p)
    \/ ForBlock(p)
    \/ Finish(p)

Next == \E p \in Writers : Step(p)

Spec == Init /\ [][Next]_vars

\* the steps of a call inside sync_range_of_blocks: the task runs when it is
\* ready, and every multi_query_blocks request is answered (with a batch or
\* with an error)
LoopProgress ==
    \E p \in Writers :
        LoopHead(p) \/ FetchError(p) \/ BatchArrives(p) \/ ForBlock(p) \/ Finish(p)

SpecLive == Init /\ [][Next]_vars /\ WF_vars(LoopProgress)

(* ----------------------------- read_blocks ----------------------------- *)
\* the callers of read_blocks
Readers == {1, 2}

\* read_blocks: Box::new(self.blockchain.read().await)
AcquireRead(r) ==
    /\ r \notin read_guards
    /\ can_read
    /\ read_guards' = read_guards \cup {r}
    /\ UNCHANGED <<mode, chain, verification_info, store_max_blocks, store,
                   last_verified, call, ctor, rng>>

\* the caller of read_blocks drops the guard
ReleaseRead(r) ==
    /\ r \in read_guards
    /\ read_guards' = read_guards \ {r}
    /\ UNCHANGED <<mode, chain, verification_info, store_max_blocks, store,
                   last_verified, call, ctor, rng>>

\* two callers of sync_blocks and the readers, in the setting of the tests:
\* the honest remote with dummy_blocks(2), no verification key, no limit
InitRW ==
    /\ Init
    /\ mode = "honest"
    /\ chain = dummy_blocks(2)
    /\ ~verification_info
    /\ store_max_blocks = None

NextRW ==
    \/ \E p \in Procs : Step(p)
    \/ \E r \in Readers : AcquireRead(r)
    \/ \E r \in Readers : ReleaseRead(r)

SpecRW == InitRW /\ [][NextRW]_vars

(* ------------------- LedgerBlocksSynchronizer::new --------------------- *)
\* the chain an earlier run stored locally
LocalChain == dummy_blocks(MaxHeight + 1)

LocalHashed(h) ==
    hash_block(LocalChain[h + 1],
               IF h = 0 THEN None ELSE block_hash(LocalChain[h]), h)

\* what Blocks::new_persistent may find at store_location: nothing, a range
\* of heights lo .. hi, or such a range together with the genesis block
PersistedStores ==
    {{}} \cup
    {{LocalHashed(h) : h \in lo .. hi} \cup (IF g THEN {LocalHashed(0)} ELSE {}) :
         lo \in 0 .. MaxHeight, hi \in 0 .. MaxHeight, g \in BOOLEAN}

\* block_store.get_at(height): the block, or NoBlock for NotFound(height)
block_store_get_at(s, height) ==
    IF height \in Heights(s) THEN CHOOSE b \in s : b.index = height ELSE NoBlock

\* block_store.first(): the first retained block: the oldest block of the
\* retained range (above the gap, when blocks after the genesis were dropped)
block_store_first(s) ==
    IF s = {} THEN NoBlock
    ELSE LET above == {b \in s : b.index > 0 /\ (b.index - 1) \notin Heights(s)}
         IN IF 0 \in Heights(s) /\ above # {}
            THEN CHOOSE b \in above : \A a \in above : b.index <= a.index
            ELSE First(s)

\* BlocksAccess::query_raw_block(height): Err, Ok(None) or Ok(Some(block))
RawBlockReplies(height) ==
    {[ok |-> FALSE, block |-> None]} \cup
    (IF mode = "honest"
     THEN {[ok |-> TRUE,
            block |-> IF height < Len(chain) THEN chain[height + 1] ELSE None]}
     ELSE [ok : {TRUE}, block : {None} \cup EncodedBlocks])

NewFinished(c, result) == [c EXCEPT !.pc = "done", !.result = result]

\* if let Some(verification_info) = &verification_info { verify_tip_of_chain }
verifies_tip_never == FALSE

verifies_tip == verification_info

\* verify_store has returned Ok(()): lines 69-76
AfterVerifyStore(c) ==
    IF verifies_tip THEN [c EXCEPT !.pc = "tip_query"] ELSE [c EXCEPT !.pc = "load"]

\* if first_block.is_some() && first_block.as_ref().unwrap().index > 0
has_snapshot_anchor(first_block) == first_block # NoBlock /\ first_block.index > 0

\* verify_store after the match on get_at(0)
AfterGenesis(c) ==
    IF has_snapshot_anchor(c.first_block)
    THEN [c EXCEPT !.pc = "anchor_query",
                   !.g_raw_queries = @ \cup {c.first_block.index}]
    ELSE AfterVerifyStore(c)

\* a store without genesis taken as it is
missing_genesis_accepted(first_block) == FALSE

\* a store without genesis never taken
missing_genesis_always_rejected(first_block) == TRUE

\* Err(BlockStoreError::NotFound(0)) => if first_block.is_some() { return Err }
missing_genesis_rejected(first_block) == first_block # NoBlock

\* the comparison left out
genesis_hash_unchecked(store_hash, remote_hash) == TRUE

\* if store_genesis.hash != Block::block_hash(&genesis) { return Err }
genesis_hash_ok(store_hash, remote_hash) == store_hash = remote_hash

\* the comparison left out
anchor_hash_unchecked(first_hash, remote_hash) == TRUE

\* if first_block.hash != Block::block_hash(&queried_block) { return Err }
anchor_hash_ok(first_hash, remote_hash) == first_hash = remote_hash

\* new down to the first await: the store is opened, verify_store reads
\* first() and get_at(0)
NewStart ==
    /\ ctor.pc = "new"
    /\ \E fault \in IF ctor.persistent /\ ctor.blocks_access
                    THEN {"none", "first", "get_at"} ELSE {"none"} :
           LET c == [ctor EXCEPT !.g_store0 = store]
               first_block == block_store_first(store)
               store_genesis == block_store_get_at(store, 0)
               c1 == [c EXCEPT !.first_block = first_block]
           IN ctor' =
                  IF ~c.blocks_access THEN [c EXCEPT !.pc = "load"]
                  ELSE IF fault # "none" THEN NewFinished(c, "Err_store")
                  ELSE IF store_genesis # NoBlock
                  THEN [c1 EXCEPT !.pc = "genesis_query", !.g_genesis = "asked",
                                  !.g_raw_queries = @ \cup {0}]
                  ELSE IF missing_genesis_rejected(first_block)
                  THEN NewFinished(c1, "Err_no_genesis")
                  ELSE AfterGenesis(c1)
    /\ UNCHANGED <<mode, chain, verification_info, store_max_blocks, store,
                   last_verified, call, read_guards, rng>>

\* canister_access.query_raw_block(0).await answers
GenesisReply ==
    /\ ctor.pc = "genesis_query"
    /\ \E r \in RawBlockReplies(0) :
           LET store_genesis == block_store_get_at(store, 0) IN
           ctor' =
               IF ~r.ok THEN NewFinished([ctor EXCEPT !.g_genesis = "error"], "Err_remote")
               ELSE IF r.block = None
               THEN NewFinished([ctor EXCEPT !.g_genesis = "missing"], "Panic")
               ELSE LET same == store_genesis.hash = block_hash(r.block)
                        c == [ctor EXCEPT !.g_genesis =
                                  IF same THEN "match" ELSE "mismatch"]
                    IN IF ~genesis_hash_ok(store_genesis.hash, block_hash(r.block))
                       THEN NewFinished(c, "Err_genesis")
                       ELSE AfterGenesis(c)
    /\ UNCHANGED <<mode, chain, verification_info, store_max_blocks, store,
                   last_verified, call, read_guards, rng>>

\* canister_access.query_raw_block(first_block.index).await answers
AnchorReply ==
    /\ ctor.pc = "anchor_query"
    /\ \E r \in RawBlockReplies(ctor.first_block.index) :
           ctor' =
               IF ~r.ok THEN NewFinished([ctor EXCEPT !.g_anchor = "error"], "Err_remote")
               ELSE IF r.block = None
               THEN NewFinished([ctor EXCEPT !.g_anchor = "missing"], "Err_anchor_missing")
               ELSE LET same == ctor.first_block.hash = block_hash(r.block)
                        c == [ctor EXCEPT !.g_anchor =
                                  IF same THEN "match" ELSE "mismatch"]
                    IN IF ~anchor_hash_ok(ctor.first_block.hash, block_hash(r.block))
                       THEN NewFinished(c, "Err_anchor")
                       ELSE AfterVerifyStore(c)
    /\ UNCHANGED <<mode, chain, verification_info, store_max_blocks, store,
                   last_verified, call, read_guards, rng>>

\* verify_tip_of_chain: canister_access.query_tip().await answers
TipReply ==
    /\ ctor.pc = "tip_query"
    /\ \E r \in TipReplies :
           ctor' =
               IF ~r.ok
               THEN NewFinished([ctor EXCEPT !.g_tip_queries = @ + 1], "Err_remote")
               ELSE [ctor EXCEPT !.pc = "tip_block_query", !.tip_index = r.tip_index,
                                 !.certification = r.certification,
                                 !.g_tip_queries = @ + 1,
                                 !.g_raw_queries = @ \cup {r.tip_index}]
    /\ UNCHANGED <<mode, chain, verification_info, store_max_blocks, store,
                   last_verified, call, read_guards, rng>>

\* verify_tip_of_chain: canister_access.query_raw_block(tip_index).await
\* answers, then verify_block_hash(&certification, block_hash(&tip_block), ..)
TipBlockReply ==
    /\ ctor.pc = "tip_block_query"
    /\ \E r \in RawBlockReplies(ctor.tip_index) :
           ctor' =
               IF ~r.ok THEN NewFinished(ctor, "Err_remote")
               ELSE IF r.block = None THEN NewFinished(ctor, "Panic")
               ELSE LET c == [ctor EXCEPT !.g_cert_checks = @ + 1,
                                          !.g_tip_block = r.block]
                    IN IF ~verify_block_hash(ctor.certification, block_hash(r.block))
                       THEN NewFinished(c, "Err_certification")
                       ELSE [c EXCEPT !.pc = "load"]
    /\ UNCHANGED <<mode, chain, verification_info, store_max_blocks, store,
                   last_verified, call, read_guards, rng>>

\* blocks.load_from_store()?, first()?, last()?, try_prune(..)?, Ok(Self {..})
Load ==
    /\ ctor.pc = "load"
    /\ \E fault \in IF ctor.persistent THEN {"none", "load", "prune"} ELSE {"none"} :
           /\ ctor' = NewFinished(ctor, IF fault = "none" THEN "Ok" ELSE "Err_store")
           /\ store' = IF fault = "none"
                       THEN try_prune(store, last_verified, store_max_blocks, PRUNE_DELAY)
                       ELSE store
    /\ UNCHANGED <<mode, chain, verification_info, store_max_blocks,
                   last_verified, call, read_guards, rng>>

\* new is called: with or without remote access, over an in-memory store or
\* over what an earlier run left at store_location
InitNew ==
    /\ mode \in {"honest", "arbitrary"}
    /\ chain \in IF mode = "honest"
                 THEN {dummy_blocks(n) : n \in 0 .. (MaxHeight + 1)}
                 ELSE {<<>>}
    /\ verification_info \in BOOLEAN
    /\ store_max_blocks \in {None, 1}
    /\ \E access \in BOOLEAN, persistent \in BOOLEAN :
           /\ ctor = [NewCall EXCEPT !.blocks_access = access,
                                     !.persistent = persistent]
           /\ store \in IF persistent THEN PersistedStores ELSE {{}}
    /\ last_verified = IF store = {} THEN None ELSE SetMax(Heights(store))
    /\ call = [p \in Procs |-> IdleCall]
    /\ read_guards = {}
    /\ rng = NoRange

NextNew ==
    \/ NewStart
    \/ GenesisReply
    \/ AnchorReply
    \/ TipReply
    \/ TipBlockReply
    \/ Load

SpecNew == InitNew /\ [][NextNew]_vars

(* ----------------- the u64 arithmetic of sync_blocks ------------------- *)
\* u64::MAX
U64_MAX == 2 ^ WordBits - 1

\* a + b and a - b on u64 where the build wraps (overflow checks off)
wrapping_add(a, b) == (a + b) % (U64_MAX + 1)
wrapping_sub(a, b) == (a - b) % (U64_MAX + 1)

add_overflows(a, b) == a + b > U64_MAX
sub_overflows(a, b) == a < b

\* the builds: with overflow checks an overflowing + or - panics, without
\* them it wraps
Builds == {"checked", "wrapping"}

RangeDone(r, outcome) == [r EXCEPT !.pc = "done", !.outcome = outcome]

\* sync_blocks from synced_to() to the Range it passes on: next_block_index,
\* the two early returns, up_to_block_included and up_to_block_included + 1
ComputeRange ==
    /\ rng.pc = "synced_to"
    /\ LET next == IF rng.synced = None THEN 0 ELSE rng.synced + 1
           upto == Min(rng.tip_index,
                       IF rng.up_to = None THEN U64_MAX ELSE rng.up_to)
           r == [rng EXCEPT !.next_block_index = next]
           r1 == [r EXCEPT !.up_to_incl = upto]
       IN rng' =
              IF next > rng.tip_index THEN RangeDone(r, "Ok")
              ELSE IF next > upto THEN RangeDone(r1, "Ok")
              ELSE IF add_overflows(upto, 1)
              THEN IF rng.build = "checked"
                   THEN RangeDone([r1 EXCEPT !.overflowed = TRUE], "Panic")
                   ELSE [r1 EXCEPT !.pc = "range", !.overflowed = TRUE,
                                   !.range_start = next,
                                   !.range_end = wrapping_add(upto, 1)]
              ELSE [r1 EXCEPT !.pc = "range", !.range_start = next,
                              !.range_end = upto + 1]
    /\ UNCHANGED <<mode, chain, verification_info, store_max_blocks, store,
                   last_verified, call, ctor, read_guards>>

\* sync_range_of_blocks down to the end of the while loop: range.end -
\* range.start for print_progress, then while i < range.end (the batches of
\* the loop all succeed)
EnterRange ==
    /\ rng.pc = "range"
    /\ rng' =
           IF sub_overflows(rng.range_end, rng.range_start) /\ rng.build = "checked"
           THEN RangeDone([rng EXCEPT !.overflowed = TRUE], "Panic")
           ELSE [rng EXCEPT !.pc = "mark",
                            !.overflowed =
                                @ \/ sub_overflows(rng.range_end, rng.range_start),
                            !.entered = rng.range_start < rng.range_end]
    /\ UNCHANGED <<mode, chain, verification_info, store_max_blocks, store,
                   last_verified, call, ctor, read_guards>>

\* blockchain.block_store.mark_last_verified(range.end - 1)
MarkLastVerified ==
    /\ rng.pc = "mark"
    /\ rng' =
           IF sub_overflows(rng.range_end, 1) /\ rng.build = "checked"
           THEN RangeDone([rng EXCEPT !.overflowed = TRUE], "Panic")
           ELSE [rng EXCEPT !.pc = "last",
                            !.overflowed = @ \/ sub_overflows(rng.range_end, 1),
                            !.marked = wrapping_sub(rng.range_end, 1)]
    /\ UNCHANGED <<mode, chain, verification_info, store_max_blocks, store,
                   last_verified, call, ctor, read_guards>>

\* blockchain.last()?.unwrap().index, then try_prune: the unwrap panics on
\* a store that is still empty
CaughtUp ==
    /\ rng.pc = "last"
    /\ rng' = IF rng.synced = None /\ ~rng.entered
              THEN RangeDone(rng, "Panic")
              ELSE RangeDone(rng, "Ok")
    /\ UNCHANGED <<mode, chain, verification_info, store_max_blocks, store,
                   last_verified, call, ctor, read_guards>>

\* one call for every tip the remote may report, every bound the caller may
\* give and every height the store may end at
InitRange ==
    /\ mode = "arbitrary" /\ chain = <<>>
    /\ verification_info = FALSE /\ store_max_blocks = None
    /\ store = {} /\ last_verified = None
    /\ call = [p \in Procs |-> IdleCall]
    /\ ctor = Constructed /\ read_guards = {}
    /\ \E build \in Builds, tip_index \in 0 .. U64_MAX,
          up_to \in {None} \cup (0 .. U64_MAX),
          synced \in {None} \cup (0 .. (U64_MAX - 1)) :
           rng = [NoRange EXCEPT !.pc = "synced_to", !.build = build,
                                 !.tip_index = tip_index, !.up_to = up_to,
                                 !.synced = synced]

NextRange ==
    \/ ComputeRange
    \/ EnterRange
    \/ MarkLastVerified
    \/ CaughtUp

SpecRange == InitRange /\ [][NextRange]_vars

(* ------------------------------ properties ----------------------------- *)
Errors == {"Err_tip", "Err_interrupted", "Err_remote", "Err_empty", "Err_decode",
           "Err_parent", "Err_certification", "Err_store", "Err_stale"}

Returned(c) == c.pc = "returned"

\* C1: chain-link invariant.  Every stored block carries the hash of its
\* payload and the parent hash its payload decodes to; a stored block at
\* height 0 has no parent; and for adjacent stored heights i, i + 1 the parent
\* hash at i + 1 is the hash stored at i.  So no fetched block that breaks the
\* link is ever in the store.
C1_ChainLinked ==
    \A b \in store :
        /\ Decodable(b.block)
        /\ b.hash = block_hash(b.block)
        /\ Decode(b.block).parent_hash = b.parent_hash
        /\ b.index = 0 => b.parent_hash = None
        /\ \A a \in store : a.index + 1 = b.index => b.parent_hash = a.hash

\* a caller met a block that breaks the link while two linked blocks are stored
C1_Witness ==
    /\ \E a, b \in store : a.index + 1 = b.index
    /\ \E p \in Procs : call[p].g_mismatch_at # None

\* C2: once a batch held a block whose parent hash differs from the running
\* last_block_hash, the call has returned the parent-hash error, the store
\* holds nothing at or above that height, and it holds what was there before
\* the call plus the heights the earlier batches of the call committed.
C2_MismatchRejected ==
    \A p \in Procs :
        LET c == call[p] IN
        c.g_mismatch_at # None =>
            /\ Returned(c) /\ c.result = "Err_parent"
            /\ \A b \in store : b.index < c.g_mismatch_at
            /\ c.g_store0 \subseteq store
            /\ Heights(store) = Heights(c.g_store0)
                   \cup (c.g_next0 .. (c.g_next0 + c.g_appended - 1))
            /\ c.g_next0 + c.g_appended <= c.g_mismatch_at

\* the mismatch came after an earlier batch of the call and an earlier call
C2_Witness ==
    \E p \in Procs :
        /\ call[p].g_mismatch_at # None
        /\ call[p].g_batches >= 1
        /\ call[p].g_store0 # {}

Dense(s) ==
    /\ Cardinality(s) = Cardinality(Heights(s))
    /\ s # {} => Heights(s) = SetMin(Heights(s)) .. SetMax(Heights(s))

TopPlusOne(s) == IF s = {} THEN 0 ELSE SetMax(Heights(s)) + 1

\* C3: height density.  After every step the stored heights are a gap-free
\* range with one block each; a step that changes the store either adds
\* consecutive heights starting right above the highest stored one (0 when
\* empty) or removes a prefix of the heights.
C3_HeightDensity ==
    [][/\ Dense(store')
       /\ store' # store =>
              \/ /\ store \subseteq store'
                 /\ \E k \in 1 .. Cardinality(store' \ store) :
                        Heights(store' \ store) =
                            TopPlusOne(store) .. (TopPlusOne(store) + k - 1)
              \/ /\ store' \subseteq store
                 /\ store' # {}
                 /\ \A a \in store \ store', b \in store' : a.index < b.index]_vars

\* two batches were appended and a prefix has been pruned
C3_Witness ==
    /\ store # {}
    /\ SetMin(Heights(store)) > 0
    /\ \E p \in Procs : call[p].g_batches >= 2

BoundAlreadySynced(c) ==
    /\ c.up_to # None
    /\ c.g_store0 # {}
    /\ c.up_to <= SetMax(Heights(c.g_store0))

\* C4: idempotent no-op.  A call whose upper bound is at most the height
\* already synced never reaches the batch loop; it returns Ok once the tip
\* query has answered (the only error it can return is that query's), with no
\* multi_query_blocks request, no certification check, no prune, and the store
\* and last-verified height as they were.
C4_IdempotentNoop ==
    \A p \in Procs :
        LET c == call[p] IN
        c.pc # "idle" /\ BoundAlreadySynced(c) =>
            /\ c.pc \in {"write_wait", "returned"}
            /\ c.g_fetches = 0 /\ c.g_cert_checks = 0 /\ c.g_prunes = 0
            /\ store = c.g_store0 /\ last_verified = c.g_lv0
            /\ Returned(c) => c.result \in {"Ok", "Err_tip"}
            /\ Returned(c) /\ c.tip_index # None => c.result = "Ok"

\* such a call returned Ok although the remote tip was above the synced height
C4_Witness ==
    \E p \in Procs :
        /\ Returned(call[p]) /\ call[p].result = "Ok"
        /\ BoundAlreadySynced(call[p])
        /\ call[p].tip_index > SetMax(Heights(call[p].g_store0))

\* the block the honest remote holds at height h, as hash_block stores it
RemoteHashed(h) ==
    [block |-> chain[h + 1], hash |-> block_hash(chain[h + 1]),
     parent_hash |-> IF h = 0 THEN None ELSE block_hash(chain[h]), index |-> h]

\* the state one uninterrupted successful sync_blocks(up_to) call reaches
\* from store s0 against the honest remote chain
FullSync(s0, up_to) ==
    LET tip == Len(chain) - 1
        upto == IF up_to = None THEN tip ELSE Min(tip, up_to)
        all == s0 \cup {RemoteHashed(h) : h \in TopPlusOne(s0) .. upto}
    IN [store |-> try_prune(all, upto, store_max_blocks, PRUNE_DELAY),
        last_verified |-> upto]

\* C5: resumability.  Against the honest remote chain every successful call
\* that entered the batch loop ends in the state FullSync gives for the store
\* it started from; and a successful call that follows interrupted calls with
\* the same bound ends in the state FullSync gives for the store the first
\* interrupted call started from: the same stored blocks, synced height and
\* last-verified height as one uninterrupted call.
C5_Resumable ==
    \A p \in Procs :
        LET c == call[p] IN
        mode = "honest" /\ Returned(c) /\ c.result = "Ok" /\ c.range_end # None =>
            /\ store = FullSync(c.g_store0, c.up_to).store
            /\ last_verified = FullSync(c.g_store0, c.up_to).last_verified
            /\ c.g_resume.on =>
                   /\ store = FullSync(c.g_resume.store0, c.up_to).store
                   /\ last_verified = FullSync(c.g_resume.store0, c.up_to).last_verified
                   /\ synced_to(store).index = Min(Len(chain) - 1,
                          IF c.up_to = None THEN Len(chain) - 1 ELSE c.up_to)

\* a call interrupted after a committed batch was resumed and returned Ok
C5_Witness ==
    \E p \in Procs :
        /\ mode = "honest" /\ Returned(call[p]) /\ call[p].result = "Ok"
        /\ call[p].g_resume.on
        /\ call[p].g_store0 # call[p].g_resume.store0
        /\ call[p].g_batches >= 1

\* C6: certification scope, as claimed: a call whose effective upper bound is
\* below the remote tip calls verify_block_hash on no block, also when the tip
\* query returned a certification (and a verification key is configured).
C6_NoCheckBelowTip ==
    \A p \in Procs :
        LET c == call[p] IN
        c.range_end # None /\ c.range_end - 1 < c.tip_index /\ c.g_tip_cert # None
            => c.g_cert_checks = 0

FullSyncFromEmpty(c) ==
    /\ mode = "honest" /\ Len(chain) >= 1
    /\ Returned(c) /\ c.result = "Ok"
    /\ c.g_store0 = {} /\ c.up_to = None

\* C7 as claimed: after a successful unbounded call from an empty store the
\* store holds exactly the heights 0 .. n-1 with the remote payloads, and the
\* lookup of height n fails.
C7_FullSyncExact ==
    \A p \in Procs :
        FullSyncFromEmpty(call[p]) =>
            /\ Heights(store) = 0 .. (Len(chain) - 1)
            /\ \A b \in store : b.block = chain[b.index + 1]
            /\ get_verified_at(store, last_verified, Len(chain)) = NoBlock

\* C7, amended: after a successful unbounded call from an empty store the
\* stored heights are a gap-free range that ends at n-1, it starts at 0 unless
\* a retention limit is configured and n exceeds it by more than PRUNE_DELAY
\* (then the oldest blocks were pruned), every stored payload is the remote
\* payload of its height, the block at n-1 is retrievable and the lookup of
\* height n fails.
C7_FullSyncUpToPruning ==
    \A p \in Procs :
        FullSyncFromEmpty(call[p]) =>
            /\ store # {}
            /\ Heights(store) = SetMin(Heights(store)) .. (Len(chain) - 1)
            /\ (store_max_blocks = None \/ Len(chain) <= store_max_blocks + PRUNE_DELAY)
                   => SetMin(Heights(store)) = 0
            /\ \A b \in store : b.block = chain[b.index + 1]
            /\ get_verified_at(store, last_verified, Len(chain) - 1).block = chain[Len(chain)]
            /\ get_verified_at(store, last_verified, Len(chain)) = NoBlock

\* a full sync of at least two blocks from the empty store, nothing pruned
C7_Witness ==
    \E p \in Procs :
        /\ FullSyncFromEmpty(call[p])
        /\ Len(chain) >= 2
        /\ Heights(store) = 0 .. (Len(chain) - 1)

EffectiveBound(c) ==
    IF c.up_to = None THEN c.tip_index ELSE Min(c.tip_index, c.up_to)

C9_StaleTipNoop ==
    \A p \in Procs :
        LET c == call[p] IN
        c.g_next0 # None /\ c.tip_index < c.g_next0 =>
            /\ Returned(c) /\ c.result = "Ok"
            /\ c.g_fetches = 0 /\ c.g_cert_checks = 0 /\ c.g_prunes = 0
            /\ store = c.g_store0 /\ last_verified = c.g_lv0

\* the tip was more than one block behind what is stored
C9_Witness ==
    \E p \in Procs :
        /\ call[p].g_next0 # None
        /\ call[p].tip_index + 1 < call[p].g_next0
        /\ Returned(call[p])

\* C10: a call that returned an error left every block stored before it in
\* place, and every height that was readable before it reads the same block.
C10_FailureKeepsPrefix ==
    \A p \in Procs :
        LET c == call[p] IN
        Returned(c) /\ c.result \in Errors =>
            /\ c.g_store0 \subseteq store
            /\ \A h \in Heights(c.g_store0) :
                   get_verified_at(c.g_store0, c.g_lv0, h) # NoBlock =>
                       get_verified_at(store, last_verified, h)
                           = get_verified_at(c.g_store0, c.g_lv0, h)

\* a call failed after it had appended to a store that was not empty
C10_Witness ==
    \E p \in Procs :
        /\ Returned(call[p]) /\ call[p].result \in Errors
        /\ call[p].g_store0 # {}
        /\ store # call[p].g_store0

Linked(s) ==
    \A b \in s :
        /\ b.hash = block_hash(b.block)
        /\ b.index = 0 => b.parent_hash = None
        /\ \A a \in s : a.index + 1 = b.index => b.parent_hash = a.hash

\* C11: cancellation.  A call becomes interrupted only at the head of a batch
\* iteration and only with the flag set; a call at the head of an iteration
\* with the flag set returns the Interrupted error in its next step, without
\* a batch request for that iteration (every request of the call was followed
\* by a committed batch), with the store untouched by that step: what was
\* stored before the call plus the whole batches of the earlier iterations,
\* gap-free and chain-linked.
C11_Cancellation ==
    [][\A p \in Procs :
         LET c == call[p]
             d == call'[p]
         IN /\ (d.result = "Err_interrupted" /\ c.result # "Err_interrupted")
                    => c.pc = "loop" /\ c.stopped /\ c.i < c.range_end
            /\ (c.pc = "loop" /\ c.stopped /\ c.i < c.range_end /\ d # c) =>
                    /\ Returned(d) /\ d.result = "Err_interrupted"
                    /\ d.g_fetches = c.g_fetches /\ d.g_fetches = d.g_batches
                    /\ store' = store /\ last_verified' = last_verified
                    /\ c.g_store0 \subseteq store'
                    /\ Heights(store') = Heights(c.g_store0) \cup (c.g_next0 .. (c.i - 1))
                    /\ c.i = c.g_next0 + c.g_appended
                    /\ Dense(store') /\ Linked(store')]_vars

\* a call was interrupted after it had committed a batch
C11_Witness ==
    \E p \in Procs :
        /\ Returned(call[p]) /\ call[p].result = "Err_interrupted"
        /\ call[p].g_batches >= 1
        /\ store # call[p].g_store0

\* C12: empty batch.  No iteration goes on with an empty answer: the blocks
\* of a batch are only processed when there is at least one; and a call that
\* got an empty answer had asked for a non-empty range, has returned the
\* empty-batch error, and left the store as the earlier iterations committed
\* it (what was stored before the call plus their whole batches) and the
\* last-verified height as it was before the call.
C12_EmptyBatch ==
    \A p \in Procs :
        LET c == call[p] IN
        /\ c.pc = "for" => c.batch_len >= 1
        /\ c.result = "Err_empty" =>
               /\ Returned(c)
               /\ c.i < c.range_end
               /\ c.g_fetches = c.g_batches + 1
               /\ c.g_store0 \subseteq store
               /\ Heights(store) = Heights(c.g_store0) \cup (c.g_next0 .. (c.i - 1))
               /\ c.i = c.g_next0 + c.g_appended
               /\ last_verified = c.g_lv0

\* the empty answer came after an iteration that had committed a batch
C12_Witness ==
    \E p \in Procs :
        /\ call[p].result = "Err_empty"
        /\ call[p].g_batches >= 1
        /\ store # call[p].g_store0

\* C20: every certification check of a call is made while the block at
\* height range.end - 1 is processed, and a call makes at most one: no
\* interior block of the range is checked, wherever the batches end.
C20_OneCheckAtRangeEnd ==
    [][\A p \in Procs :
         LET c == call[p]
             d == call'[p]
         IN /\ d.g_cert_checks <= 1
            /\ d.g_cert_checks > c.g_cert_checks =>
                   /\ c.pc = "for"
                   /\ c.i = c.range_end - 1
                   /\ c.g_cert_checks = 0]_vars

\* the one check was made in the second batch of a call, on the block that
\* ends the range, after the first batch had ended on an interior block
C20_Witness ==
    \E p \in Procs :
        /\ call[p].g_cert_checks = 1
        /\ call[p].g_batches >= 2
        /\ ~call[p].g_overlong

\* the construction is past the genesis step of verify_store
PastGenesisStep(c) ==
    c.pc \in {"anchor_query", "tip_query", "tip_block_query", "load"} \/ c.result = "Ok"

\* C13: construction genesis check.  With remote access and a block at
\* height 0 in the local store, construction asks the remote for block 0
\* (unless reading the store failed first); when the hash of the block the
\* remote answered differs from the stored genesis hash, construction has
\* returned the genesis error; and construction is past this step only when
\* the two hashes were equal.
C13_GenesisCheck ==
    (ctor.blocks_access /\ ctor.pc # "new" /\ 0 \in Heights(ctor.g_store0)) =>
        /\ ctor.g_genesis = "none" => ctor.result = "Err_store"
        /\ ctor.g_genesis # "none" => 0 \in ctor.g_raw_queries
        /\ ctor.g_genesis = "mismatch" =>
               ctor.pc = "done" /\ ctor.result = "Err_genesis"
        /\ PastGenesisStep(ctor) => ctor.g_genesis = "match"

\* the remote answered a genesis block with another hash
C13_Witness ==
    /\ 0 \in Heights(ctor.g_store0)
    /\ ctor.g_genesis = "mismatch"
    /\ ctor.result = "Err_genesis"

\* verify_store has read a first block above height 0 from a store that has
\* no block at height 0
SnapshotWithoutGenesis(c) ==
    /\ c.blocks_access /\ c.pc # "new"
    /\ c.first_block # NoBlock /\ c.first_block.index > 0
    /\ 0 \notin Heights(c.g_store0)

\* the anchor step of verify_store was entered
AnchorAsked(c) == c.pc = "anchor_query" \/ c.g_anchor # "none"

\* C14 as claimed: a store with no block at height 0 whose first retained
\* block is above height 0 is accepted by the store check, which goes on to
\* ask the remote for the snapshot anchor.
C14_SnapshotAccepted ==
    SnapshotWithoutGenesis(ctor) =>
        /\ ctor.result # "Err_no_genesis"
        /\ AnchorAsked(ctor)

\* C14, amended: a store with no block at height 0 whose first retained block
\* is above height 0 is rejected: construction returns the error "Snapshot
\* found, but genesis block not present in the store" without any remote
\* query.  The anchor step is entered only for a store that holds block 0,
\* after the genesis check has found the hashes equal.
C14_SnapshotNeedsGenesis ==
    /\ SnapshotWithoutGenesis(ctor) =>
           /\ ctor.pc = "done" /\ ctor.result = "Err_no_genesis"
           /\ ctor.g_raw_queries = {} /\ ctor.g_tip_queries = 0
           /\ ~AnchorAsked(ctor)
    /\ AnchorAsked(ctor) =>
           /\ 0 \in Heights(ctor.g_store0)
           /\ ctor.g_genesis = "match"
           /\ ctor.first_block.index > 0

\* a store pruned from genesis was rejected
C14_Witness ==
    /\ SnapshotWithoutGenesis(ctor)
    /\ Cardinality(ctor.g_store0) >= 2
    /\ ctor.result = "Err_no_genesis"

\* verify_store has read a first block above height 0
FirstAboveGenesis(c) ==
    c.blocks_access /\ c.first_block # NoBlock /\ c.first_block.index > 0

\* the construction is past verify_store
PastStoreCheck(c) ==
    c.pc \in {"tip_query", "tip_block_query", "load"} \/ c.result = "Ok"

\* C15 as claimed: whenever the first retained block is above height 0 and
\* no remote query has failed before, construction asks the remote for that
\* height.
C15_AnchorAlwaysAsked ==
    (FirstAboveGenesis(ctor) /\ ctor.pc = "done"
         /\ ctor.g_genesis \notin {"error", "missing", "mismatch"})
        => AnchorAsked(ctor)

\* C15, amended: when the first retained block is at a height h > 0 and the
\* store also holds the block at height 0, whose genesis check has passed,
\* construction asks the remote for height h; it has returned an error when
\* the remote answered no block at h or a block with another hash; and it is
\* past the store check only when the remote answered a block at h with the
\* stored hash.
C15_AnchorCheck ==
    /\ (FirstAboveGenesis(ctor) /\ 0 \in Heights(ctor.g_store0)
            /\ ctor.g_genesis = "match") =>
           /\ AnchorAsked(ctor)
           /\ ctor.first_block.index \in ctor.g_raw_queries
    /\ ctor.g_anchor = "missing" =>
           ctor.pc = "done" /\ ctor.result = "Err_anchor_missing"
    /\ ctor.g_anchor = "mismatch" =>
           ctor.pc = "done" /\ ctor.result = "Err_anchor"
    /\ (FirstAboveGenesis(ctor) /\ PastStoreCheck(ctor)) => ctor.g_anchor = "match"

\* the remote answered a block with another hash at the anchor height
C15_Witness ==
    /\ FirstAboveGenesis(ctor)
    /\ ctor.g_genesis = "match"
    /\ ctor.g_anchor = "mismatch"
    /\ ctor.result = "Err_anchor"

\* C16: construction tip certification.  Without a verification key (or
\* without remote access) construction makes no tip query and no
\* certification check.  With both, a construction that has passed the store
\* check goes on to the tip query, and it is past verify_tip_of_chain only
\* after one tip query, the fetch of the block at the tip index the query
\* answered, and one certification check in which the certification the query
\* answered attests the hash of that block; a failed query, fetch or check has
\* ended the construction without a synchronizer.
C16_TipCertification ==
    /\ ~(verification_info /\ ctor.blocks_access) =>
           /\ ctor.g_tip_queries = 0 /\ ctor.g_cert_checks = 0
           /\ ctor.pc \notin {"tip_query", "tip_block_query"}
    /\ (verification_info /\ ctor.blocks_access) =>
           /\ (ctor.pc = "load" \/ ctor.result = "Ok"
                   \/ (ctor.result = "Err_store" /\ ctor.g_cert_checks = 1)) =>
                  /\ ctor.g_tip_queries = 1
                  /\ ctor.tip_index \in ctor.g_raw_queries
                  /\ ctor.g_cert_checks = 1
                  /\ ctor.g_tip_block # None
                  /\ ctor.certification # None
                  /\ ctor.certification = block_hash(ctor.g_tip_block)
           /\ ctor.result \in {"Err_certification", "Panic", "Err_remote"} =>
                  ctor.pc = "done"
           /\ (ctor.g_cert_checks = 1
                   /\ (ctor.certification = None
                           \/ ctor.certification # block_hash(ctor.g_tip_block))) =>
                  ctor.pc = "done" /\ ctor.result = "Err_certification"

\* a synchronizer was returned after the certification of the tip was checked
\* over a store that has a snapshot anchor
C16_Witness ==
    /\ verification_info /\ ctor.blocks_access
    /\ ctor.result = "Ok"
    /\ ctor.g_cert_checks = 1
    /\ ctor.g_anchor = "match"

\* the results new returns as Err(..)
ConstructionErrors ==
    {"Err_store", "Err_remote", "Err_genesis", "Err_no_genesis",
     "Err_anchor_missing", "Err_anchor", "Err_certification"}

\* every check new made has passed
ChecksPassed(c) ==
    /\ c.g_genesis \in {"none", "match"}
    /\ c.g_anchor \in {"none", "match"}
    /\ (verification_info /\ c.blocks_access) =>
           /\ c.g_cert_checks = 1
           /\ c.certification # None
           /\ c.certification = block_hash(c.g_tip_block)

\* C17, as claimed: a construction that has ended has either returned a
\* synchronizer, every check having passed, or returned an error to the
\* caller of new; that includes the remote answering no block where one was
\* asked for.
C17_FailuresReturned ==
    ctor.pc = "done" =>
        \/ ctor.result = "Ok" /\ ChecksPassed(ctor)
        \/ ctor.result \in ConstructionErrors

\* new has ended, called with an empty local store against the honest remote
\* whose chain has no blocks, and no store operation failed
EmptyChainConstruction(c) ==
    /\ mode = "honest" /\ chain = <<>>
    /\ c.blocks_access
    /\ c.pc = "done" /\ c.g_store0 = {}
    /\ c.result # "Err_store"

\* C18 as claimed: construction against a remote chain without blocks, with
\* an empty local store, succeeds, and the local chain has no first and no
\* last block.
C18_EmptyChainSucceeds ==
    EmptyChainConstruction(ctor) =>
        /\ ctor.result = "Ok"
        /\ block_store_first(store) = NoBlock
        /\ synced_to(store).index = None

\* C18, amended: construction against a remote chain without blocks, with an
\* empty local store, succeeds when no verification key is configured, without
\* any remote query, and the local chain then has no first and no last block;
\* with a verification key configured the tip query of construction fails on
\* the empty chain and construction returns that error.
C18_EmptyChainWithoutKey ==
    EmptyChainConstruction(ctor) =>
        /\ ~verification_info =>
               /\ ctor.result = "Ok"
               /\ ctor.g_raw_queries = {} /\ ctor.g_tip_queries = 0
               /\ store = {}
               /\ block_store_first(store) = NoBlock
               /\ synced_to(store).index = None
        /\ verification_info =>
               /\ ctor.result = "Err_remote"
               /\ ctor.g_tip_queries = 1 /\ ctor.g_cert_checks = 0
               /\ store = {}

\* a synchronizer was returned over the empty store, no key configured
C18_Witness ==
    /\ EmptyChainConstruction(ctor)
    /\ ~verification_info
    /\ ctor.result = "Ok"
    /\ store = {}

\* C19: reader/writer exclusion.  After every step: while a sync_blocks call
\* holds the chain view (from its write().await to its return) no read guard
\* is held and no other call holds the chain view; and across every step
\* during which some read guard stays held, the store and the last-verified
\* height stay as they are, so no reader sees the store between two batches
\* of a call.  Read guards are handed out whenever no call holds the chain
\* view, however many are already held.
C19_ReaderWriterExclusion ==
    [][/\ \A p \in Procs :
              HoldsWrite(call'[p]) =>
                  /\ read_guards' = {}
                  /\ \A q \in Procs \ {p} : ~HoldsWrite(call'[q])
       /\ (read_guards \cap read_guards') # {} =>
              store' = store /\ last_verified' = last_verified
       /\ \A r \in Readers :
              (r \notin read_guards /\ \A q \in Procs : ~HoldsWrite(call[q]))
                  => ENABLED AcquireRead(r)]_vars

\* a call holds the chain view between two of its batches while another
\* call, its tip already queried, waits for the chain view
C19_Witness ==
    \E p \in Procs, q \in Procs :
        /\ p # q
        /\ HoldsWrite(call[p]) /\ call[p].g_batches >= 1
        /\ call[p].i < call[p].range_end
        /\ call[q].pc = "write_wait"
        /\ read_guards = {}

\* C21: last-verified watermark, as claimed.  A step changes the last-verified
\* height only when a call has completed its batch loop over the whole range,
\* and sets it to range.end - 1; a call that returned an error left it as it
\* was before the call; it never exceeds the synced height; and after a
\* successful call that appended blocks it equals the synced height.
C21_Watermark ==
    [][/\ last_verified' # last_verified =>
              \E p \in Procs :
                  /\ call[p].pc = "loop" /\ ~(call[p].i < call[p].range_end)
                  /\ last_verified' = call[p].range_end - 1
       /\ \A p \in Procs :
              LET d == call'[p] IN
              /\ Returned(d) /\ d.result \in Errors => last_verified' = d.g_lv0
              /\ Returned(d) /\ d.result = "Ok" /\ d.g_appended > 0
                     => last_verified' = synced_to(store').index
       /\ last_verified' <= synced_to(store').index]_vars

BatchStart(c) == c.i - Len(c.hashed_batch)

\* C23: batch atomicity.  The store grows only in the step that ends the for
\* loop over a batch, by all the blocks of that batch at once, each of them
\* decoded, linked to its predecessor and, at range.end - 1 with a key
\* configured, attested by the certification; while the for loop runs the
\* store is not written; and when a block of the batch fails a check the call
\* returns an error with the store as it was before the batch: it holds no
\* height of the batch, the valid blocks before the failing one included.
C23_BatchAtomicity ==
    [][\A p \in Procs :
         LET c == call[p]
             d == call'[p]
         IN /\ (store' # store /\ store \subseteq store' /\ d # c) =>
                   /\ c.pc = "for" /\ d.pc = "loop"
                   /\ Len(c.hashed_batch) + 1 = c.batch_len
                   /\ Cardinality(store' \ store) = c.batch_len
                   /\ Heights(store' \ store) = BatchStart(c) .. c.i
                   /\ \A b \in store' \ store :
                          /\ Decodable(b.block)
                          /\ Decode(b.block).parent_hash = b.parent_hash
                          /\ b.hash = block_hash(b.block)
                          /\ \A a \in store' : a.index + 1 = b.index
                                 => b.parent_hash = a.hash
                          /\ (b.index = c.range_end - 1 /\ verification_info)
                                 => verify_block_hash(c.certification, b.hash)
            /\ (c.pc = "for" /\ d.pc = "for" /\ d # c) => store' = store
            /\ (c.pc = "for" /\ Returned(d)) =>
                   /\ d.result \in Errors
                   /\ store' = store
                   /\ \A b \in store' : b.index < BatchStart(c)]_vars

\* a batch failed the link check at its second block or later: the valid
\* blocks before it in the batch are not in the store
C23_Witness ==
    \E p \in Procs :
        LET c == call[p] IN
        /\ Returned(c) /\ c.result = "Err_parent"
        /\ c.g_mismatch_at > c.g_next0 + c.g_appended
        /\ \A b \in store : b.index < c.g_next0 + c.g_appended

\* C24: concurrent sync calls.  A call takes its start height and running
\* hash from the store as it is when it acquires the chain view (whatever the
\* store was when it queried the tip, and whatever another call appended in
\* between); a batch is appended only at heights the store does not hold,
\* right above its highest height; and after every step of every interleaving
\* the store is gap-free, holds one block per height and is chain-linked.
C24_ConcurrentSyncs ==
    [][/\ \A p \in Procs :
              LET c == call[p]
                  d == call'[p]
              IN /\ (c.pc = "write_wait" /\ d # c) =>
                        /\ d.g_next0 = TopPlusOne(store)
                        /\ d.pc = "loop" =>
                               /\ d.i = TopPlusOne(store)
                               /\ d.last_block_hash = synced_to(store).hash
                 /\ (c.pc = "for" /\ d.pc = "loop") =>
                        /\ BatchStart(c) = TopPlusOne(store)
                        /\ \A h \in BatchStart(c) .. c.i : h \notin Heights(store)
                        /\ Heights(store') = Heights(store) \cup (BatchStart(c) .. c.i)
       /\ Dense(store') /\ Linked(store')]_vars

\* a call that queried the tip while the store was empty acquired the chain
\* view after another call had appended, and appended above those blocks
C24_Witness ==
    \E p \in Procs :
        LET c == call[p] IN
        /\ c.g_store0 = {} /\ c.g_next0 # None /\ c.g_next0 >= 1
        /\ c.g_appended >= 1
        /\ Heights(store) = 0 .. (c.g_next0 + c.g_appended - 1)

InLoop(c) == c.pc \in {"loop", "fetch", "for"}

\* C25: termination.  Every batch that ends without an error has advanced the
\* height cursor by at least one block (by the length of the batch), so a
\* call over the range [start, end) has made at most end - start batch
\* requests, each but the last followed by a committed batch; and, every
\* request being answered, a call that has entered the batch loop returns.
C25_Termination ==
    /\ [][\A p \in Procs :
            LET c == call[p]
                d == call'[p]
            IN /\ (c.pc = "for" /\ d.pc = "loop") =>
                      /\ d.i = BatchStart(c) + c.batch_len
                      /\ d.i >= BatchStart(c) + 1
               /\ (c.pc = "for" /\ d.pc = "for" /\ d.hashed_batch # c.hashed_batch)
                      => d.i = c.i + 1]_vars
    /\ [](\A p \in Procs :
            LET c == call[p] IN
            c.range_end # None =>
                /\ c.g_fetches <= c.range_end - c.g_next0
                /\ c.g_fetches <= c.g_batches + 1
                /\ c.i >= c.g_next0 + c.g_batches)
    /\ \A p \in Writers : InLoop(call[p]) ~> Returned(call[p])

\* a call over a range of three blocks returned after three batch requests
C25_Witness ==
    \E p \in Procs :
        LET c == call[p] IN
        /\ Returned(c) /\ c.result = "Ok"
        /\ c.range_end # None /\ c.range_end - c.g_next0 = 3
        /\ c.g_fetches = 3 /\ c.g_batches = 3

\* C26, as claimed: whatever the remote answers, no block a call has appended
\* lies above min(tip_index, up_to_block_included).
C26_UpperBoundRespected ==
    \A p \in Procs :
        LET c == call[p] IN
        c.range_end # None =>
            \A b \in store \ c.g_store0 : b.index <= EffectiveBound(c)

SyncsToTip(c) ==
    /\ verification_info
    /\ c.range_end # None
    /\ c.range_end - 1 = c.tip_index

C28_RangeArithmetic ==
    /\ ~rng.overflowed
    /\ rng.outcome # "Panic"
    /\ rng.range_end # None => rng.range_end > rng.range_start
    /\ rng.marked # None => rng.marked = rng.up_to_incl

====
